---- MODULE Spec2Model ----
(***************************************************************************)
(* Prism backend: the document processing pipeline                         *)
(* (app/documents/service.py, app/watson/*.py) as a state machine.         *)
(*                                                                         *)
(* One document is followed from upload through process_document.  The     *)
(* store (the documents row and its extracted_transactions rows) holds     *)
(* committed values only; the run's AsyncSession holds the pending         *)
(* attribute changes and pending rows, which a successful commit flushes   *)
(* and a failed commit rolls back.                                         *)
(*                                                                         *)
(* The reputation engine (app/reputation/scoring.py, router.py) is         *)
(* followed for one user: recalculate_claims step by step against the      *)
(* committed claim rows, with transactions arriving and profile reads in   *)
(* between (ReputationSpec), recalculate requests that overlap in time,    *)
(* each on a session of its own (ConcurrentSpec), and compute_trust_score  *)
(* applied to claim lists (ScoreSpec).                                     *)
(***************************************************************************)
EXTENDS Integers, Sequences, FiniteSets, TLC

VARIABLES
    document,       \* the committed documents row ([status |-> "absent"] fields before upload)
    rows,           \* committed extracted_transactions rows inserted by the latest run
    rowsEarlier,    \* number of committed rows inserted by earlier runs
    sess,           \* the run's session: pending changes not yet committed
    pc,             \* position of process_document
    exc,            \* the exception being handled (line 90), or NoExc
    polls,          \* iterations done by the polling loop of extract_text_async while it runs
    lastPoll,       \* the dict returned by the latest get_extraction_status
    raw_text,       \* local raw_text of process_document
    transactions,   \* local transactions of process_document (the candidates)
    runs,           \* number of process_document invocations so far
    hist,           \* committed status values of the document during the latest run
    seen,           \* the status returned by the latest get_status during the latest run
    calls,          \* provider calls made by the latest run
    outcome         \* what happened in the latest run: how text extraction failed, whether
                    \* the response was unparsable, whether a commit of the try block
                    \* failed, whether the store itself was unavailable, whether the
                    \* classifier's label lay outside the closed set

\* the reputation engine (app/reputation/scoring.py, router.py), for one user
VARIABLES
    user_txns,      \* the user's committed extracted_transactions rows, as the set of
                    \* the batches of rows that pipeline runs have committed
    claim_rows,     \* the user's committed verifiable_claims rows
    recalc,         \* the recalculate_claims call in progress, with its session
    requests,       \* number of POST /reputation/recalculate requests so far
    basis,          \* the transactions the latest committed recomputation had loaded
    profile,        \* the latest GET /reputation/profile since the latest recalculate
                    \* request began: the claim rows it read and its score
    score_call,     \* a call of compute_trust_score: its claim list, its result
    sessions        \* the recalculate_claims calls of requests that overlap in
                    \* time, each with a database session of its own

docVars == <<document, rows, rowsEarlier, sess, pc, exc, polls, lastPoll, raw_text,
             transactions, runs, hist, seen, calls, outcome>>
repVars == <<user_txns, claim_rows, recalc, requests, basis, profile, score_call,
             sessions>>
vars == <<document, rows, rowsEarlier, sess, pc, exc, polls, lastPoll, raw_text,
          transactions, runs, hist, seen, calls, outcome,
          user_txns, claim_rows, recalc, requests, basis, profile, score_call,
          sessions>>

(***************************************************************************)
(* Bounds of the model.                                                    *)
(***************************************************************************)
MaxRuns == 2        \* process_document invocations on the document
MaxRespLen == 5     \* tokens of a language-model response
MaxDocs == 3        \* batches of transactions committed for the user
MaxRecalcs == 2     \* recalculate requests
MaxCallers == 2     \* recalculate requests in progress at the same time

(***************************************************************************)
(* Optional values: None is <<>>, a present value v is <<v>>.              *)
(***************************************************************************)
None == <<>>
Some(v) == <<v>>
IsNone(o) == o = <<>>
Get(o) == o[1]

Min(a, b) == IF a <= b THEN a ELSE b
Range(f) == {f[i] : i \in DOMAIN f}

(***************************************************************************)
(* Exceptions.  An exception carries its class and the length of str(e).   *)
(***************************************************************************)
NoExc == [type |-> "none", len |-> 0]
Exc(t, n) == [type |-> t, len |-> n]

\* lengths of the messages of provider and store errors (job ids, SQL text)
MsgLens == {40, 500, 501}

ERROR_MESSAGE_CAP == 500
\* the message stored whole, with no slice
Truncate_Whole(n) == n
\* str(e)[:500]
Truncate(n) == Min(n, ERROR_MESSAGE_CAP)

(***************************************************************************)
(* Text extraction (app/watson/text_extraction.py).                        *)
(***************************************************************************)
MAX_POLLS == 60
Texts == {"textA"}
\* states a job can report; anything but completed/failed/error is pending
PollStatuses == {"completed", "failed", "error", "running", "unknown"}

\* get_extraction_status: the text is filled only for a completed job
get_extraction_status(state, text) ==
    [status |-> state, text |-> IF state = "completed" THEN text ELSE ""]

NoPoll == [status |-> "none", text |-> ""]

(***************************************************************************)
(* The store row and the session.                                          *)
(***************************************************************************)
AbsentDocument ==
    [status |-> "absent", raw_extracted_text |-> None, document_type |-> None,
     error_message |-> None, processed_at |-> None]

\* upload_document: Document(..., status="uploaded"), other columns NULL
NewDocument ==
    [status |-> "uploaded", raw_extracted_text |-> None, document_type |-> None,
     error_message |-> None, processed_at |-> None]

CleanSession ==
    [status |-> None, raw_extracted_text |-> None, document_type |-> None,
     error_message |-> None, processed_at |-> None, added |-> <<>>]

NoCalls == [submit |-> 0, classify |-> 0, extract |-> 0]
NoOutcome == [textFail |-> "none", parseFailed |-> FALSE, commitFailed |-> FALSE,
              storeDown |-> FALSE, labelOutside |-> FALSE]

\* the row after a flush of the session's pending attribute changes
Flushed(d, s) ==
    [status             |-> IF IsNone(s.status) THEN d.status ELSE Get(s.status),
     raw_extracted_text |-> IF IsNone(s.raw_extracted_text) THEN d.raw_extracted_text
                            ELSE s.raw_extracted_text,
     document_type      |-> IF IsNone(s.document_type) THEN d.document_type
                            ELSE s.document_type,
     error_message      |-> IF IsNone(s.error_message) THEN d.error_message
                            ELSE s.error_message,
     processed_at       |-> IF IsNone(s.processed_at) THEN d.processed_at
                            ELSE s.processed_at]

\* extracted_transactions.category is NOT NULL (models.py:61): a pending row
\* with a NULL category makes the flush raise IntegrityError
FlushRejected(s) == \E i \in 1..Len(s.added) : s.added[i].category = "NULL"

(***************************************************************************)
(* JSON values of a transaction candidate's fields.  A string is the       *)
(* sequence of its lexical tokens (digit groups, separators, words).       *)
(***************************************************************************)
Missing  == [t |-> "missing", n |-> 0, s |-> <<>>]     \* key not in the dict
JNull    == [t |-> "null", n |-> 0, s |-> <<>>]
JNum(k)  == [t |-> "num", n |-> k, s |-> <<>>]
JStr(ts) == [t |-> "str", n |-> 0, s |-> ts]

\* decimal reading of the digit groups that occur in the inputs: value and width
DigitGroups == {"2024", "01", "15", "03", "04", "13", "42", "1450"}
DigitValue(tok) ==
    CASE tok = "2024" -> 2024 [] tok = "01" -> 1 [] tok = "15" -> 15
      [] tok = "03" -> 3 [] tok = "04" -> 4 [] tok = "13" -> 13
      [] tok = "42" -> 42 [] tok = "1450" -> 1450
DigitWidth(tok) ==
    CASE tok \in {"2024", "1450"} -> 4 [] OTHER -> 2

\* Python truthiness of a JSON value (`if not date_str`)
Truthy(v) ==
    CASE v.t = "missing" -> FALSE
      [] v.t = "null" -> FALSE
      [] v.t = "num" -> v.n # 0
      [] v.t = "str" -> v.s # <<>>

\* dict.get(key, default): the default only when the key is missing
DictGet(v, default) == IF v.t = "missing" THEN default ELSE v

(***************************************************************************)
(* float(txn.get("amount", 0))                                             *)
(***************************************************************************)
ToFloat(v) ==
    CASE v.t = "num" -> [ok |-> TRUE, val |-> v.n, exc |-> NoExc]
      [] v.t = "null" -> [ok |-> FALSE, val |-> 0, exc |-> Exc("TypeError", 66)]
      [] v.t = "str" ->
            IF Len(v.s) = 1 /\ v.s[1] \in DigitGroups
                THEN [ok |-> TRUE, val |-> DigitValue(v.s[1]), exc |-> NoExc]
            ELSE IF Len(v.s) = 2 /\ v.s[1] = "-" /\ v.s[2] \in DigitGroups
                THEN [ok |-> TRUE, val |-> 0 - DigitValue(v.s[2]), exc |-> NoExc]
            ELSE [ok |-> FALSE, val |-> 0, exc |-> Exc("ValueError", 40)]

AmountOf(txn) == ToFloat(DictGet(txn.amount, JNum(0)))

(***************************************************************************)
(* _parse_date: datetime.strptime against the three formats, in order.     *)
(***************************************************************************)
IsLeap(y) == (y % 4 = 0 /\ y % 100 # 0) \/ y % 400 = 0
DaysInMonth(y, m) ==
    IF m = 2 THEN (IF IsLeap(y) THEN 29 ELSE 28)
    ELSE IF m \in {4, 6, 9, 11} THEN 30 ELSE 31

\* the fields matched by %Y, %m, %d: %Y takes exactly four digits
FieldsOk(yt, mt, dt) ==
    /\ yt \in DigitGroups /\ mt \in DigitGroups /\ dt \in DigitGroups
    /\ DigitWidth(yt) = 4 /\ DigitWidth(mt) <= 2 /\ DigitWidth(dt) <= 2
    /\ DigitValue(yt) >= 1
    /\ DigitValue(mt) \in 1..12
    /\ DigitValue(dt) \in 1..DaysInMonth(DigitValue(yt), DigitValue(mt))

MkDate(yt, mt, dt) == [y |-> DigitValue(yt), m |-> DigitValue(mt), d |-> DigitValue(dt)]

\* strptime(s, fmt): Some(date), or None for ValueError
Strptime(s, fmt) ==
    IF Len(s) # 5 THEN None
    ELSE CASE fmt = "%Y-%m-%d" ->
                IF s[2] = "-" /\ s[4] = "-" /\ FieldsOk(s[1], s[3], s[5])
                    THEN Some(MkDate(s[1], s[3], s[5])) ELSE None
           [] fmt = "%m/%d/%Y" ->
                IF s[2] = "/" /\ s[4] = "/" /\ FieldsOk(s[5], s[1], s[3])
                    THEN Some(MkDate(s[5], s[1], s[3])) ELSE None
           [] fmt = "%d/%m/%Y" ->
                IF s[2] = "/" /\ s[4] = "/" /\ FieldsOk(s[5], s[3], s[1])
                    THEN Some(MkDate(s[5], s[3], s[1])) ELSE None

DATE_FORMATS == <<"%Y-%m-%d", "%m/%d/%Y", "%d/%m/%Y">>

RECURSIVE TryFormats(_, _)
TryFormats(s, i) ==
    IF i > Len(DATE_FORMATS) THEN None
    ELSE IF Strptime(s, DATE_FORMATS[i]) # None THEN Strptime(s, DATE_FORMATS[i])
    ELSE TryFormats(s, i + 1)

\* v is txn.get("date"): a missing key reads as None
_parse_date(v) ==
    IF ~Truthy(v) THEN [ok |-> TRUE, val |-> None, exc |-> NoExc]
    ELSE IF v.t # "str" THEN [ok |-> FALSE, val |-> None, exc |-> Exc("TypeError", 42)]
    ELSE [ok |-> TRUE, val |-> TryFormats(v.s, 1), exc |-> NoExc]

(***************************************************************************)
(* Transaction candidates and the rows built from them (lines 70-83).      *)
(***************************************************************************)
Cand(c, a, d) == [kind |-> "dict", category |-> c, amount |-> a, date |-> d]
\* an element of the JSON array that is not an object
NonDict == [kind |-> "list", category |-> Missing, amount |-> Missing, date |-> Missing]

IsoDate == JStr(<<"2024", "-", "01", "-", "15">>)
BaseCandidate == Cand(JStr(<<"rent">>), JNum(0 - 1450), IsoDate)

CoreCandidates ==
    { BaseCandidate,
      Cand(JNull, JNum(42), IsoDate),
      Cand(JStr(<<"income">>), JNull, IsoDate),
      Cand(JStr(<<"rent">>), JNum(42), JNum(20240115)) }

Candidates ==
    CoreCandidates \cup
    { Cand(JStr(<<"rent">>), JNum(42), Missing),
      Cand(JStr(<<"rent">>), JNum(42), JNull),
      Cand(JStr(<<"rent">>), JNum(42), JStr(<<"not", "-", "a", "-", "date">>)),
      Cand(JStr(<<"rent">>), JNum(42), JStr(<<"03", "/", "04", "/", "2024">>)),
      Cand(JStr(<<"rent">>), JNum(42), JStr(<<"15", "/", "01", "/", "2024">>)),
      Cand(JStr(<<"rent">>), Missing, IsoDate),
      Cand(JStr(<<"rent">>), JStr(<<"abc">>), IsoDate),
      Cand(JStr(<<"rent">>), JStr(<<"1450">>), IsoDate),
      Cand(Missing, JNum(42), IsoDate),
      Cand(JStr(<<"shopping">>), JNum(42), IsoDate) }

\* category=txn.get("category", "other"): a JSON null is stored as NULL
CategoryOf(txn) ==
    LET v == DictGet(txn.category, JStr(<<"other">>))
    IN  IF v.t = "str" /\ Len(v.s) = 1 THEN v.s[1] ELSE "NULL"

\* ExtractedTransaction(...) for one candidate: the keyword arguments are
\* evaluated in order, so the first failing conversion raises
MakeRow(txn) ==
    IF txn.kind # "dict"
        THEN [ok |-> FALSE, row |-> <<>>, exc |-> Exc("AttributeError", 36)]
    ELSE IF ~AmountOf(txn).ok
        THEN [ok |-> FALSE, row |-> <<>>, exc |-> AmountOf(txn).exc]
    ELSE IF ~_parse_date(txn.date).ok
        THEN [ok |-> FALSE, row |-> <<>>, exc |-> _parse_date(txn.date).exc]
    ELSE [ok |-> TRUE,
          row |-> <<[category |-> CategoryOf(txn), amount |-> AmountOf(txn).val,
                     transaction_date |-> _parse_date(txn.date).val]>>,
          exc |-> NoExc]

\* the for loop: db.add for each candidate until one raises
RECURSIVE SaveLoop(_, _, _)
SaveLoop(txns, i, added) ==
    IF i > Len(txns) THEN [added |-> added, exc |-> NoExc]
    ELSE IF ~MakeRow(txns[i]).ok THEN [added |-> added, exc |-> MakeRow(txns[i]).exc]
    ELSE SaveLoop(txns, i + 1, added \o MakeRow(txns[i]).row)

(***************************************************************************)
(* Language-model responses (app/watson/llm_extraction.py).  A response is *)
(* a sequence of tokens: "[", "]", ",", "o" (a JSON object) and "x" (any   *)
(* other text), with the objects that are elements of the outer array.     *)
(***************************************************************************)
Tokens == {"[", "]", ",", "o", "x"}
TokenSeqs == UNION { [1..n -> Tokens] : n \in 0..MaxRespLen }

\* str.index / str.rindex: 0 stands for ValueError
FirstIndex(s, tok) ==
    IF \E i \in 1..Len(s) : s[i] = tok
        THEN CHOOSE i \in 1..Len(s) : s[i] = tok /\ \A j \in 1..(i - 1) : s[j] # tok
    ELSE 0
LastIndex(s, tok) ==
    IF \E i \in 1..Len(s) : s[i] = tok
        THEN CHOOSE i \in 1..Len(s) : s[i] = tok /\ \A j \in (i + 1)..Len(s) : s[j] # tok
    ELSE 0

\* result[start:end] with start = index("["), end = rindex("]") + 1
JsonSlice(s) ==
    IF FirstIndex(s, "[") = 0 \/ LastIndex(s, "]") = 0 THEN <<>>
    ELSE SubSeq(s, FirstIndex(s, "["), LastIndex(s, "]"))

\* the position after the JSON value that starts at i, 0 when there is none
RECURSIVE ValueEnd(_, _), ElementsEnd(_, _)
ValueEnd(s, i) ==
    IF i > Len(s) THEN 0
    ELSE IF s[i] = "o" THEN i + 1
    ELSE IF s[i] = "[" THEN
        IF i + 1 <= Len(s) /\ s[i + 1] = "]" THEN i + 2
        ELSE LET e == ElementsEnd(s, i + 1)
             IN  IF e = 0 \/ e > Len(s) \/ s[e] # "]" THEN 0 ELSE e + 1
    ELSE 0
ElementsEnd(s, i) ==
    LET e == ValueEnd(s, i)
    IN  IF e = 0 THEN 0
        ELSE IF e <= Len(s) /\ s[e] = "," THEN ElementsEnd(s, e + 1)
        ELSE e

\* json.loads accepts the slice iff it is exactly one JSON value
JsonValid(s) == s # <<>> /\ ValueEnd(s, 1) = Len(s) + 1

\* the kinds of the elements of the (valid) array s, from position i
RECURSIVE ElementKinds(_, _)
ElementKinds(s, i) ==
    IF s[i] = "]" THEN <<>>
    ELSE LET e == ValueEnd(s, i)
             k == IF s[i] = "o" THEN "dict" ELSE "list"
         IN  IF s[e] = "," THEN <<k>> \o ElementKinds(s, e + 1) ELSE <<k>>

\* json.loads(slice): the elements, each object taken from objs in order
RECURSIVE JsonElements(_, _)
JsonElements(kinds, objs) ==
    IF kinds = <<>> THEN <<>>
    ELSE IF kinds[1] = "dict" THEN <<objs[1]>> \o JsonElements(Tail(kinds), Tail(objs))
    ELSE <<NonDict>> \o JsonElements(Tail(kinds), objs)

NumObjects(toks) ==
    IF JsonValid(JsonSlice(toks))
        THEN Len(SelectSeq(ElementKinds(JsonSlice(toks), 2), LAMBDA k : k = "dict"))
    ELSE 0

\* the responses: one object may be any candidate, several are core candidates
ObjectLists(n) ==
    IF n = 0 THEN {<<>>}
    ELSE IF n = 1 THEN {<<c>> : c \in Candidates}
    ELSE [1..n -> CoreCandidates]
Responses ==
    UNION { {[tokens |-> t, objs |-> o] : o \in ObjectLists(NumObjects(t))} : t \in TokenSeqs }

\* whether the try block of extract_transactions raises ValueError/JSONDecodeError
ParseFails(result) ==
    \/ FirstIndex(result.tokens, "[") = 0
    \/ LastIndex(result.tokens, "]") = 0
    \/ ~JsonValid(JsonSlice(result.tokens))

\* the parse failure handed on as one element that is no transaction
extract_transactions_Raw(result) ==
    IF ParseFails(result) THEN <<NonDict>>
    ELSE JsonElements(ElementKinds(JsonSlice(result.tokens), 2), result.objs)
\* extract_transactions: the parsed list, [] when the parse fails
extract_transactions(result) ==
    IF ParseFails(result) THEN <<>>
    ELSE JsonElements(ElementKinds(JsonSlice(result.tokens), 2), result.objs)

\* the distinct results of extract_transactions over all responses
ExtractResults ==
    { [unparsable |-> ParseFails(r), list |-> extract_transactions(r)] : r \in Responses }

(***************************************************************************)
(* classify_document: result.strip().lower(), then the closed label set.   *)
(***************************************************************************)
VALID_TYPES == {"bank_statement", "rent_receipt", "utility_bill", "pay_stub", "other"}
RawLabels == {"pay_stub", " Pay_Stub\n", "invoice", "Other"}
StripLower(label) ==
    CASE label = " Pay_Stub\n" -> "pay_stub"
      [] label = "Other" -> "other"
      [] OTHER -> label
\* the normalised label stored with no membership test
classify_document_Unchecked(label) == StripLower(label)
\* lines 58-60: label = result.strip().lower(); label if label in valid else "other"
classify_document(label) ==
    IF StripLower(label) \in VALID_TYPES THEN StripLower(label) ELSE "other"

(***************************************************************************)
(* The user's transactions.  A batch is the rows one pipeline run          *)
(* committed for one document: n rows with the same category, amount and   *)
(* is_on_time.  Amounts are whole currency units.  The rows of a batch are *)
(* either all dated, their transaction_date running from first to last (a  *)
(* day number), or all undated (transaction_date NULL).                    *)
(***************************************************************************)
BatchNames == {"rent12", "rentLate", "pay12", "pay1", "power", "waterLate", "shop",
               "zero"}
Batch(b) ==
    CASE b = "rent12"    -> [category |-> "rent", n |-> 12, amount |-> 0 - 1450,
                             is_on_time |-> Some(TRUE),
                             first |-> Some(32), last |-> Some(366)]
      [] b = "rentLate"  -> [category |-> "rent", n |-> 1, amount |-> 0 - 1450,
                             is_on_time |-> Some(FALSE),
                             first |-> None, last |-> None]
      [] b = "pay12"     -> [category |-> "income", n |-> 12, amount |-> 4200,
                             is_on_time |-> None,
                             first |-> Some(15), last |-> Some(349)]
      [] b = "pay1"      -> [category |-> "income", n |-> 1, amount |-> 4200,
                             is_on_time |-> None,
                             first |-> Some(380), last |-> Some(380)]
      [] b = "power"     -> [category |-> "utility", n |-> 1, amount |-> 0 - 120,
                             is_on_time |-> Some(TRUE),
                             first |-> Some(40), last |-> Some(40)]
      [] b = "waterLate" -> [category |-> "utility", n |-> 2, amount |-> 0 - 60,
                             is_on_time |-> None,
                             first |-> None, last |-> None]
      [] b = "shop"      -> [category |-> "shopping", n |-> 1, amount |-> 0 - 80,
                             is_on_time |-> None,
                             first |-> Some(3), last |-> Some(3)]
      [] b = "zero"      -> [category |-> "other", n |-> 1, amount |-> 0,
                             is_on_time |-> None,
                             first |-> None, last |-> None]

RECURSIVE Sum(_, _)
Sum(f, S) == IF S = {} THEN 0
             ELSE LET x == CHOOSE x \in S : TRUE IN f[x] + Sum(f, S \ {x})

Abs(a) == IF a < 0 THEN 0 - a ELSE a
Max(a, b) == IF a >= b THEN a ELSE b

\* [t for t in transactions if t.category == cat]
Group(S, cat) == {b \in S : Batch(b).category = cat}
\* len(group)
Count(G) == Sum([b \in G |-> Batch(b).n], G)
\* the count with an unknown flag taken as on time
OnTime_NotLate(G) ==
    Sum([b \in G |-> IF Batch(b).is_on_time # Some(FALSE) THEN Batch(b).n ELSE 0], G)
\* sum(1 for t in group if t.is_on_time is True)
OnTime(G) == Sum([b \in G |-> IF Batch(b).is_on_time = Some(TRUE) THEN Batch(b).n ELSE 0], G)
\* sum(abs(t.amount) for t in group)
AbsTotal(G) == Sum([b \in G |-> Batch(b).n * Abs(Batch(b).amount)], G)
\* sum(abs(t.amount) for t in transactions if t.amount > 0), and if t.amount < 0
Inflow(S) == AbsTotal({b \in S : Batch(b).amount > 0})
\* the outflow of the rent and utility transactions only
Outflow_Categorised(S) ==
    AbsTotal({b \in S : Batch(b).amount < 0 /\ Batch(b).category \in {"rent", "utility"}})
Outflow(S) == AbsTotal({b \in S : Batch(b).amount < 0})
\* dates = [t.transaction_date for t in group if t.transaction_date]
Dated(G) == {b \in G : ~IsNone(Batch(b).first)}
\* the start left out as soon as one transaction of the group has no date
PeriodStart_AllDated(G) ==
    IF Dated(G) # G THEN None
    ELSE Some(CHOOSE d \in {Get(Batch(b).first) : b \in Dated(G)} :
                  \A b \in Dated(G) : d <= Get(Batch(b).first))
\* min(dates) if dates else None
PeriodStart(G) ==
    IF Dated(G) = {} THEN None
    ELSE Some(CHOOSE d \in {Get(Batch(b).first) : b \in Dated(G)} :
                  \A b \in Dated(G) : d <= Get(Batch(b).first))
\* max(dates) if dates else None
PeriodEnd(G) ==
    IF Dated(G) = {} THEN None
    ELSE Some(CHOOSE d \in {Get(Batch(b).last) : b \in Dated(G)} :
                  \A b \in Dated(G) : d >= Get(Batch(b).last))

(***************************************************************************)
(* round(): the quotient num/den (num >= 0, den > 0) rounded to the        *)
(* nearest integer, a tie to the even one, which is Python's round on the  *)
(* values the batches above produce.  A rate and a confidence are kept in  *)
(* hundredths, a rounded amount in cents, a score in tenths.               *)
(***************************************************************************)
RoundHalfEven(num, den) ==
    LET q == num \div den
        r == num % den
    IN  IF 2 * r > den \/ (2 * r = den /\ q % 2 = 1) THEN q + 1 ELSE q

(***************************************************************************)
(* recalculate_claims, lines 41-129: the claims generated from the loaded  *)
(* transactions, in the order rent, income, utility, bank health.          *)
(***************************************************************************)
Claim(type, data, conf, start, end) ==
    [claim_type |-> type, claim_data |-> data, confidence |-> conf,
     period_start |-> start, period_end |-> end]

\* lines 49-69
RentClaim(S) ==
    LET rent == Group(S, "rent")
        total == Count(rent)
        on_time == OnTime(rent)
    IN  IF total = 0 THEN <<>>
        ELSE <<Claim("rent_history",
                     [total_payments   |-> total,
                      on_time_payments |-> on_time,
                      on_time_rate     |-> RoundHalfEven(100 * on_time, total),
                      average_amount   |-> RoundHalfEven(100 * AbsTotal(rent), total),
                      currency         |-> "USD"],
                     Min(95, 60 + total * 3),
                     PeriodStart(rent), PeriodEnd(rent))>>

\* lines 72-90
IncomeClaim(S) ==
    LET income == Group(S, "income")
        total_income == AbsTotal(income)
    IN  IF Count(income) = 0 THEN <<>>
        ELSE <<Claim("income_stability",
                     [total_deposits  |-> Count(income),
                      total_income    |-> 100 * total_income,
                      average_deposit |-> RoundHalfEven(100 * total_income, Count(income)),
                      currency        |-> "USD"],
                     Min(95, 50 + Count(income) * 4),
                     PeriodStart(income), PeriodEnd(income))>>

\* lines 93-110
UtilityClaim(S) ==
    LET utility == Group(S, "utility")
        total == Count(utility)
        on_time == OnTime(utility)
    IN  IF total = 0 THEN <<>>
        ELSE <<Claim("utility_payment",
                     [total_payments   |-> total,
                      on_time_payments |-> on_time,
                      on_time_rate     |-> RoundHalfEven(100 * on_time, total)],
                     Min(90, 50 + total * 3),
                     PeriodStart(utility), PeriodEnd(utility))>>

\* the bank health claim made only for a user with income
BankHealthClaim_IncomeOnly(S) ==
    IF Count(Group(S, "income")) = 0 THEN <<>>
    ELSE <<Claim("bank_health",
                 [total_inflow      |-> 100 * Inflow(S),
                  total_outflow     |-> 100 * Outflow(S),
                  net_flow          |-> 100 * (Inflow(S) - Outflow(S)),
                  transaction_count |-> Count(S)],
                 Min(90, 50 + Count(S) * 2), None, None)>>
\* lines 113-129: made from all the transactions, whatever their category;
\* the constructor is given no period, so both columns are NULL
BankHealthClaim(S) ==
    <<Claim("bank_health",
            [total_inflow      |-> 100 * Inflow(S),
             total_outflow     |-> 100 * Outflow(S),
             net_flow          |-> 100 * (Inflow(S) - Outflow(S)),
             transaction_count |-> Count(S)],
            Min(90, 50 + Count(S) * 2), None, None)>>

\* lines 36-38 and 41-129: no transactions, no claims
GenerateClaims(S) ==
    IF S = {} THEN <<>>
    ELSE RentClaim(S) \o IncomeClaim(S) \o UtilityClaim(S) \o BankHealthClaim(S)

(***************************************************************************)
(* compute_trust_score (scoring.py:139-182).  A raw sub-score is the exact *)
(* quotient n/d; a weight is kept in hundredths.                           *)
(***************************************************************************)
WEIGHTS == [rent_history |-> 30, income_stability |-> 30,
            utility_payment |-> 20, bank_health |-> 20]
DEFAULT_WEIGHT == 10
\* WEIGHTS.get(ct, 0.1)
WeightOf(ct) == IF ct \in DOMAIN WEIGHTS THEN WEIGHTS[ct] ELSE DEFAULT_WEIGHT

\* data.get(key, default)
DataGet(data, key, default) == IF key \in DOMAIN data THEN data[key] ELSE default

\* the income sub-score with the deposit count left uncapped
RawScore_Uncapped(claim) ==
    LET ct == claim.claim_type
        data == claim.claim_data
    IN  CASE ct = "rent_history" ->
               [n |-> DataGet(data, "on_time_rate", 0) * 70 * 12
                      + Min(12, DataGet(data, "total_payments", 0)) * 30 * 100,
                d |-> 100 * 12]
          [] ct = "income_stability" ->
               [n |-> DataGet(data, "total_deposits", 0) * 100, d |-> 12]
          [] ct = "utility_payment" ->
               [n |-> DataGet(data, "on_time_rate", 0) * 100, d |-> 100]
          [] ct = "bank_health" ->
               [n |-> Min(100 * 10000, Max(0, 50 * 10000 + DataGet(data, "net_flow", 0))),
                d |-> 10000]
          [] OTHER -> [n |-> 50, d |-> 1]
\* lines 149-160: raw, before any rounding
RawScore(claim) ==
    LET ct == claim.claim_type
        data == claim.claim_data
    IN  CASE ct = "rent_history" ->
               \* (rate * 0.7 + min(1.0, total_payments / 12) * 0.3) * 100
               [n |-> DataGet(data, "on_time_rate", 0) * 70 * 12
                      + Min(12, DataGet(data, "total_payments", 0)) * 30 * 100,
                d |-> 100 * 12]
          [] ct = "income_stability" ->
               \* min(1.0, total_deposits / 12) * 100
               [n |-> Min(12, DataGet(data, "total_deposits", 0)) * 100, d |-> 12]
          [] ct = "utility_payment" ->
               \* rate * 100
               [n |-> DataGet(data, "on_time_rate", 0) * 100, d |-> 100]
          [] ct = "bank_health" ->
               \* min(100, max(0, 50 + net / 100)), net in cents here
               [n |-> Min(100 * 10000, Max(0, 50 * 10000 + DataGet(data, "net_flow", 0))),
                d |-> 10000]
          [] OTHER -> [n |-> 50, d |-> 1]

\* round(x, 1) of the quotient n/d, in tenths
Round1(n, d) == RoundHalfEven(10 * n, d)

\* lines 163-167: the breakdown entry of one claim
Entry(claim) ==
    [raw_score |-> Round1(RawScore(claim).n, RawScore(claim).d),
     weight    |-> WeightOf(claim.claim_type),
     weighted  |-> Round1(RawScore(claim).n * WeightOf(claim.claim_type),
                          RawScore(claim).d * 100)]

\* breakdown[ct] = {...}: a later claim of a type replaces an earlier one
Breakdown(claims) ==
    LET types == {claims[i].claim_type : i \in DOMAIN claims}
        last(ct) == CHOOSE i \in DOMAIN claims :
                        /\ claims[i].claim_type = ct
                        /\ \A j \in DOMAIN claims : j > i => claims[j].claim_type # ct
    IN  [ct \in types |-> Entry(claims[last(ct)])]

\* the ladder with its bounds exclusive
LevelOf_Exclusive(score) ==
    IF score > 800 THEN "Excellent"
    ELSE IF score > 600 THEN "Good"
    ELSE IF score > 400 THEN "Fair"
    ELSE IF score > 200 THEN "Building"
    ELSE "New"
\* lines 171-180, the score in tenths
LevelOf(score) ==
    IF score >= 800 THEN "Excellent"
    ELSE IF score >= 600 THEN "Good"
    ELSE IF score >= 400 THEN "Fair"
    ELSE IF score >= 200 THEN "Building"
    ELSE "New"

\* sum(v["weighted"] for v in breakdown.values())
WeightedTotal(breakdown) ==
    Sum([ct \in DOMAIN breakdown |-> breakdown[ct].weighted], DOMAIN breakdown)

\* the score left as the sum, with no clamp
compute_trust_score_Unclamped(claims) ==
    IF claims = <<>> THEN [score |-> 0, breakdown |-> <<>>, level |-> "No Data"]
    ELSE [score     |-> WeightedTotal(Breakdown(claims)),
          breakdown |-> Breakdown(claims),
          level     |-> LevelOf(WeightedTotal(Breakdown(claims)))]
\* the weights renormalised over the claim types present
compute_trust_score_Renormalized(claims) ==
    IF claims = <<>> THEN [score |-> 0, breakdown |-> <<>>, level |-> "No Data"]
    ELSE LET breakdown == Breakdown(claims)
             present == Sum([ct \in DOMAIN breakdown |-> breakdown[ct].weight],
                            DOMAIN breakdown)
             score == Round1(Min(1000, Max(0, (WeightedTotal(breakdown) * 100) \div present)),
                             10)
         IN  [score |-> score, breakdown |-> breakdown, level |-> LevelOf(score)]
compute_trust_score(claims) ==
    IF claims = <<>> THEN [score |-> 0, breakdown |-> <<>>, level |-> "No Data"]
    ELSE LET breakdown == Breakdown(claims)
             \* round(min(100, max(0, score)), 1)
             score == Round1(Min(1000, Max(0, WeightedTotal(breakdown))), 10)
         IN  [score |-> score, breakdown |-> breakdown, level |-> LevelOf(score)]

(***************************************************************************)
(* The recalculate_claims call and the reads of the reputation router.     *)
(***************************************************************************)
\* existing: the rows db.delete marked; transactions: the rows loaded;
\* claims: the rows generated; before: the committed rows when the request
\* began; committed: the commit returned; repeat: the committed rows had
\* been generated from these same transactions
IdleRecalc ==
    [pc |-> "idle", existing |-> {}, transactions |-> None, claims |-> <<>>,
     before |-> {}, committed |-> FALSE, repeat |-> FALSE]
NoProfile == [claims |-> {}, score_data |-> None]
\* one of several overlapping recalculate_claims calls: request numbers it
\* (0: none yet); existing, transactions as above; committed: its commit
\* returned
Callers == 1..MaxCallers
IdleCall == [pc |-> "idle", request |-> 0, existing |-> {}, transactions |-> None,
             committed |-> FALSE]
NoScoreCall == [claims |-> <<>>, result |-> None]

\* the rows keyed by their place, so that a recomputation reuses identities
WithIds_Reused(claims, request) ==
    [i \in DOMAIN claims |->
        [id |-> <<0, i>>, claim_type |-> claims[i].claim_type,
         claim_data |-> claims[i].claim_data, confidence |-> claims[i].confidence,
         period_start |-> claims[i].period_start, period_end |-> claims[i].period_end]]
\* VerifiableClaim(...) rows of one request; id is the uuid4 default
WithIds(claims, request) ==
    [i \in DOMAIN claims |->
        [id |-> <<request, i>>, claim_type |-> claims[i].claim_type,
         claim_data |-> claims[i].claim_data, confidence |-> claims[i].confidence,
         period_start |-> claims[i].period_start, period_end |-> claims[i].period_end]]

\* the rows of a select with no ORDER BY, in any order
Orderings(S) ==
    {f \in [1..Cardinality(S) -> S] : \A i, j \in 1..Cardinality(S) : f[i] = f[j] => i = j}

PipelineInit ==
    /\ document = AbsentDocument
    /\ rows = <<>>
    /\ rowsEarlier = 0
    /\ sess = CleanSession
    /\ pc = "idle"
    /\ exc = NoExc
    /\ polls = 0
    /\ lastPoll = NoPoll
    /\ raw_text = None
    /\ transactions = None
    /\ runs = 0
    /\ hist = <<>>
    /\ seen = None
    /\ calls = NoCalls
    /\ outcome = NoOutcome

ReputationInit ==
    /\ user_txns = {}
    /\ claim_rows = {}
    /\ recalc = IdleRecalc
    /\ requests = 0
    /\ basis = None
    /\ profile = NoProfile
    /\ score_call = NoScoreCall
    /\ sessions = [k \in Callers |-> IdleCall]

Init == PipelineInit /\ ReputationInit

(***************************************************************************)
(* db.commit(): a successful commit flushes the pending changes and rows;  *)
(* a failed one rolls the session back and raises.                         *)
(***************************************************************************)
CommitOk(s) ==
    /\ ~FlushRejected(s)
    /\ document' = Flushed(document, s)
    /\ rows' = rows \o s.added
    /\ sess' = CleanSession
    /\ hist' = IF Flushed(document, s).status # document.status
                   THEN Append(hist, Flushed(document, s).status) ELSE hist

CommitFail ==
    /\ sess' = CleanSession
    /\ UNCHANGED <<document, rows, hist>>

\* the exception a failed commit raises
CommitErrors(s) ==
    IF FlushRejected(s) THEN {Exc("IntegrityError", n) : n \in {501}}
    ELSE {Exc("OperationalError", n) : n \in MsgLens}

ProviderErrors == {Exc("ApiRequestFailure", n) : n \in MsgLens}

(***************************************************************************)
(* POST /documents/upload (router.py) and upload_document (service.py):    *)
(* one row in status uploaded, one process_document task.                  *)
(***************************************************************************)
\* two tasks scheduled for the document
StartRun_Twice(status) ==
    /\ runs' = runs + 2
    /\ pc' = "scheduled"
    /\ rowsEarlier' = rowsEarlier + Len(rows)
    /\ rows' = <<>>
    /\ sess' = CleanSession
    /\ exc' = NoExc
    /\ polls' = 0
    /\ lastPoll' = NoPoll
    /\ raw_text' = None
    /\ transactions' = None
    /\ hist' = IF status = "absent" THEN <<>> ELSE <<status>>
    /\ seen' = None
    /\ calls' = NoCalls
    /\ outcome' = NoOutcome
StartRun(status) ==
    /\ runs' = runs + 1
    /\ pc' = "scheduled"
    /\ rowsEarlier' = rowsEarlier + Len(rows)
    /\ rows' = <<>>
    /\ sess' = CleanSession
    /\ exc' = NoExc
    /\ polls' = 0
    /\ lastPoll' = NoPoll
    /\ raw_text' = None
    /\ transactions' = None
    /\ hist' = IF status = "absent" THEN <<>> ELSE <<status>>
    /\ seen' = None
    /\ calls' = NoCalls
    /\ outcome' = NoOutcome

Upload ==
    /\ document.status = "absent"
    /\ pc \in {"idle", "returned", "raised"}
    /\ runs < MaxRuns
    /\ document' = NewDocument
    /\ StartRun("uploaded")
    /\ UNCHANGED repVars

\* process_document called again by a caller outside the upload path
InvokeRun ==
    /\ pc \in {"idle", "returned", "raised"}
    /\ runs < MaxRuns
    /\ UNCHANGED document
    /\ StartRun(document.status)
    /\ UNCHANGED repVars

(***************************************************************************)
(* process_document, lines 44-49: load the row.                            *)
(***************************************************************************)
\* a run that returns at once on a failed document
LoadDocument_SkipsFailed ==
    /\ pc = "scheduled"
    /\ \/ /\ document.status \in {"absent", "failed"}
          /\ pc' = "returned"
          /\ UNCHANGED outcome
       \/ /\ document.status \notin {"absent", "failed"}
          /\ pc' = "try"
          /\ UNCHANGED outcome
       \/ /\ pc' = "raised"
          /\ outcome' = [outcome EXCEPT !.storeDown = TRUE]
    /\ UNCHANGED <<document, rows, rowsEarlier, sess, exc, polls, lastPoll, raw_text,
                   transactions, runs, hist, seen, calls>>
    /\ UNCHANGED repVars
LoadDocument ==
    /\ pc = "scheduled"
    /\ \/ /\ document.status = "absent"
          /\ pc' = "returned"
          /\ UNCHANGED outcome
       \/ /\ document.status # "absent"
          /\ pc' = "try"
          /\ UNCHANGED outcome
       \/ /\ pc' = "raised"          \* the select raises, outside the try block
          /\ outcome' = [outcome EXCEPT !.storeDown = TRUE]
    /\ UNCHANGED <<document, rows, rowsEarlier, sess, exc, polls, lastPoll, raw_text,
                   transactions, runs, hist, seen, calls>>
    /\ UNCHANGED repVars

(***************************************************************************)
(* lines 53-54: doc.status = "extracting"; await db.commit()               *)
(***************************************************************************)
CommitExtracting ==
    /\ pc = "try"
    /\ LET s == [sess EXCEPT !.status = Some("extracting")]
       IN  \/ /\ CommitOk(s)
              /\ pc' = "submit"
              /\ UNCHANGED <<exc, outcome>>
           \/ /\ CommitFail
              /\ exc' \in CommitErrors(s)
              /\ pc' = "handler"
              /\ outcome' = [outcome EXCEPT !.commitFailed = TRUE,
                                            !.storeDown = @ \/ ~FlushRejected(s)]
    /\ UNCHANGED <<rowsEarlier, polls, lastPoll, raw_text, transactions, runs, seen, calls>>
    /\ UNCHANGED repVars

(***************************************************************************)
(* extract_text_async, line 56: start_extraction submits the job.          *)
(***************************************************************************)
StartExtraction ==
    /\ pc = "submit"
    /\ calls' = [calls EXCEPT !.submit = @ + 1]
    /\ \/ /\ pc' = "poll"
          /\ UNCHANGED <<exc, outcome>>
       \/ /\ exc' \in ProviderErrors
          /\ pc' = "handler"
          /\ outcome' = [outcome EXCEPT !.textFail = "submit"]
    /\ UNCHANGED <<document, rows, rowsEarlier, sess, polls, lastPoll, raw_text,
                   transactions, runs, hist, seen>>
    /\ UNCHANGED repVars

(***************************************************************************)
(* extract_text_async, lines 58-66: one iteration of the polling loop.     *)
(***************************************************************************)
\* the raw text stored with the assignment of status analyzing left out
TextExtracted_NoStatus(s, text) == [s EXCEPT !.raw_extracted_text = Some(text)]
\* lines 58-61: doc.raw_extracted_text = raw_text; doc.status = "analyzing"
TextExtracted(s, text) ==
    [s EXCEPT !.raw_extracted_text = Some(text), !.status = Some("analyzing")]

\* the loop with status error read as still pending
PollVerdict_ErrorPending(n, result) ==
    IF result.status = "completed" THEN "return"
    ELSE IF result.status = "failed" THEN "RuntimeError"
    ELSE IF n >= MAX_POLLS THEN "TimeoutError"
    ELSE "continue"
\* what the loop does with the result of its n-th poll
PollVerdict(n, result) ==
    IF result.status = "completed" THEN "return"
    ELSE IF result.status \in {"failed", "error"} THEN "RuntimeError"
    ELSE IF n >= MAX_POLLS THEN "TimeoutError"
    ELSE "continue"

PollExtraction ==
    /\ pc = "poll"
    /\ polls < MAX_POLLS
    /\ \/ /\ exc' \in ProviderErrors          \* get_extraction_status raises
          /\ pc' = "handler"
          /\ polls' = 0
          /\ outcome' = [outcome EXCEPT !.textFail = "poll"]
          /\ UNCHANGED <<lastPoll, raw_text, sess>>
       \/ \E state \in PollStatuses, text \in Texts :
            LET result == get_extraction_status(state, text)
                verdict == PollVerdict(polls + 1, result)
            IN  /\ lastPoll' = result
                /\ CASE verdict = "return" ->
                          \* lines 58, 61: raw text and status analyzing pending
                          /\ raw_text' = Some(result.text)
                          /\ sess' = TextExtracted(sess, result.text)
                          /\ pc' = "commitAnalyzing"
                          /\ polls' = 0
                          /\ UNCHANGED <<exc, outcome>>
                     [] verdict = "RuntimeError" ->
                          /\ exc' \in {Exc("RuntimeError", n) : n \in MsgLens}
                          /\ pc' = "handler"
                          /\ outcome' = [outcome EXCEPT !.textFail = "provider"]
                          /\ polls' = 0
                          /\ UNCHANGED <<raw_text, sess>>
                     [] verdict = "TimeoutError" ->
                          /\ exc' \in {Exc("TimeoutError", n) : n \in MsgLens}
                          /\ pc' = "handler"
                          /\ outcome' = [outcome EXCEPT !.textFail = "timeout"]
                          /\ polls' = 0
                          /\ UNCHANGED <<raw_text, sess>>
                     [] OTHER ->
                          /\ pc' = "poll"
                          /\ polls' = polls + 1
                          /\ UNCHANGED <<exc, outcome, raw_text, sess>>
    /\ UNCHANGED <<document, rows, rowsEarlier, transactions, runs, hist, seen, calls>>
    /\ UNCHANGED repVars

(***************************************************************************)
(* line 62: await db.commit() of status analyzing and the raw text.        *)
(***************************************************************************)
CommitAnalyzing ==
    /\ pc = "commitAnalyzing"
    /\ \/ /\ CommitOk(sess)
          /\ pc' = "classify"
          /\ UNCHANGED <<exc, outcome>>
       \/ /\ CommitFail
          /\ exc' \in CommitErrors(sess)
          /\ pc' = "handler"
          /\ outcome' = [outcome EXCEPT !.commitFailed = TRUE,
                                        !.storeDown = @ \/ ~FlushRejected(sess)]
    /\ UNCHANGED <<rowsEarlier, polls, lastPoll, raw_text, transactions, runs, seen, calls>>
    /\ UNCHANGED repVars

(***************************************************************************)
(* lines 64-65: doc.document_type = await classify_document(raw_text)      *)
(***************************************************************************)
ClassifyDocument ==
    /\ pc = "classify"
    /\ calls' = [calls EXCEPT !.classify = @ + 1]
    /\ \/ \E label \in RawLabels :
            /\ sess' = [sess EXCEPT !.document_type = Some(classify_document(label))]
            /\ pc' = "extract"
            /\ outcome' = [outcome EXCEPT !.labelOutside = StripLower(label) \notin VALID_TYPES]
            /\ UNCHANGED exc
       \/ /\ exc' \in ProviderErrors
          /\ pc' = "handler"
          /\ UNCHANGED <<sess, outcome>>
    /\ UNCHANGED <<document, rows, rowsEarlier, polls, lastPoll, raw_text, transactions,
                   runs, hist, seen>>
    /\ UNCHANGED repVars

(***************************************************************************)
(* lines 67-86: extract_transactions, the loop that adds the rows, then    *)
(* status completed and processed_at pending.                              *)
(***************************************************************************)
ExtractTransactions ==
    /\ pc = "extract"
    /\ calls' = [calls EXCEPT !.extract = @ + 1]
    /\ \/ \E r \in ExtractResults :
            LET loop == SaveLoop(r.list, 1, <<>>)
            IN  /\ transactions' = Some(r.list)
                /\ outcome' = [outcome EXCEPT !.parseFailed = r.unparsable]
                /\ IF loop.exc = NoExc
                     THEN /\ sess' = [sess EXCEPT !.added = @ \o loop.added,
                                                  !.status = Some("completed"),
                                                  !.processed_at = Some("utcnow")]
                          /\ pc' = "commitCompleted"
                          /\ UNCHANGED exc
                     ELSE /\ sess' = [sess EXCEPT !.added = @ \o loop.added]
                          /\ exc' = loop.exc
                          /\ pc' = "handler"
       \/ /\ exc' \in ProviderErrors
          /\ pc' = "handler"
          /\ UNCHANGED <<sess, transactions, outcome>>
    /\ UNCHANGED <<document, rows, rowsEarlier, polls, lastPoll, raw_text, runs, hist, seen>>
    /\ UNCHANGED repVars

(***************************************************************************)
(* line 87: await db.commit() of the rows and status completed.            *)
(***************************************************************************)
CommitCompleted ==
    /\ pc = "commitCompleted"
    /\ \/ /\ CommitOk(sess)
          /\ pc' = "returned"
          /\ UNCHANGED <<exc, outcome>>
       \/ /\ CommitFail
          /\ exc' \in CommitErrors(sess)
          /\ pc' = "handler"
          /\ outcome' = [outcome EXCEPT !.commitFailed = TRUE,
                                        !.storeDown = @ \/ ~FlushRejected(sess)]
    /\ UNCHANGED <<rowsEarlier, polls, lastPoll, raw_text, transactions, runs, seen, calls>>
    /\ UNCHANGED repVars

(***************************************************************************)
(* lines 90-94: except Exception: status failed, str(e)[:500], commit.     *)
(***************************************************************************)
HandleException ==
    /\ pc = "handler"
    /\ LET s == [sess EXCEPT !.status = Some("failed"),
                             !.error_message = Some(Truncate(exc.len))]
       IN  \/ /\ CommitOk(s)
              /\ pc' = "returned"
              /\ UNCHANGED outcome
           \/ /\ CommitFail            \* the commit raises out of process_document
              /\ pc' = "raised"
              /\ outcome' = [outcome EXCEPT !.storeDown = @ \/ ~FlushRejected(s)]
    /\ UNCHANGED <<rowsEarlier, exc, polls, lastPoll, raw_text, transactions, runs, seen,
                   calls>>
    /\ UNCHANGED repVars

(***************************************************************************)
(* GET /documents/{id}/status (router.py): reads the committed row in a    *)
(* session of its own.                                                     *)
(***************************************************************************)
\* a read that sees the writer's uncommitted status
get_status_Dirty == IF IsNone(sess.status) THEN document.status ELSE Get(sess.status)
get_status == document.status

GetStatus ==
    /\ document.status # "absent"
    /\ pc \notin {"idle", "scheduled"}
    /\ seen # Some(get_status)
    /\ seen' = Some(get_status)
    /\ UNCHANGED <<document, rows, rowsEarlier, sess, pc, exc, polls, lastPoll, raw_text,
                   transactions, runs, hist, calls, outcome>>
    /\ UNCHANGED repVars

Next ==
    \/ Upload
    \/ InvokeRun
    \/ LoadDocument
    \/ CommitExtracting
    \/ StartExtraction
    \/ PollExtraction
    \/ CommitAnalyzing
    \/ ClassifyDocument
    \/ ExtractTransactions
    \/ CommitCompleted
    \/ HandleException
    \/ GetStatus

Spec == Init /\ [][Next]_vars

\* the polling loop awaits a sleep and a poll that return, so it keeps stepping
FairSpec == Spec /\ WF_vars(PollExtraction)

(***************************************************************************)
(* The reputation engine.  Pipeline runs commit batches of transactions;   *)
(* recalculate requests run one after another, each in a session of its    *)
(* own whose changes reach the store only when its commit returns; a       *)
(* profile read runs in another session and sees committed rows only.      *)
(***************************************************************************)
\* service.py:87, seen from the reputation engine: a run commits its rows
AddTransactions ==
    /\ Cardinality(user_txns) < MaxDocs
    /\ \E b \in BatchNames \ user_txns : user_txns' = user_txns \cup {b}
    /\ UNCHANGED <<claim_rows, recalc, requests, basis, profile, score_call>>
    /\ UNCHANGED sessions
    /\ UNCHANGED docVars

\* POST /reputation/recalculate (router.py:44-49)
Recalculate ==
    /\ recalc.pc \in {"idle", "returned", "raised"}
    /\ requests < MaxRecalcs
    /\ requests' = requests + 1
    /\ recalc' = [IdleRecalc EXCEPT !.pc = "select", !.before = claim_rows]
    /\ profile' = NoProfile
    /\ UNCHANGED <<user_txns, claim_rows, basis, score_call>>
    /\ UNCHANGED sessions
    /\ UNCHANGED docVars

\* the existing claims left alone: nothing is marked for deletion
SelectExisting_KeepsAll ==
    /\ recalc.pc = "select"
    /\ \/ recalc' = [recalc EXCEPT !.existing = {}, !.pc = "load"]
       \/ recalc' = [recalc EXCEPT !.pc = "raised"]
    /\ UNCHANGED <<user_txns, claim_rows, requests, basis, profile, score_call>>
    /\ UNCHANGED sessions
    /\ UNCHANGED docVars
\* lines 24-27: select the user's claims, db.delete each (pending)
SelectExisting ==
    /\ recalc.pc = "select"
    /\ \/ recalc' = [recalc EXCEPT !.existing = claim_rows, !.pc = "load"]
       \/ recalc' = [recalc EXCEPT !.pc = "raised"]         \* the select raises
    /\ UNCHANGED <<user_txns, claim_rows, requests, basis, profile, score_call>>
    /\ UNCHANGED sessions
    /\ UNCHANGED docVars

\* the DELETE flushed before the select committed on its own
LoadTransactions_DeleteCommitted ==
    /\ recalc.pc = "load"
    /\ \/ /\ recalc' = [recalc EXCEPT !.transactions = Some(user_txns), !.pc = "commit"]
          /\ claim_rows' = claim_rows \ recalc.existing
       \/ /\ recalc' = [recalc EXCEPT !.pc = "raised"]
          /\ UNCHANGED claim_rows
    /\ UNCHANGED <<user_txns, requests, basis, profile, score_call>>
    /\ UNCHANGED sessions
    /\ UNCHANGED docVars
\* lines 30-35: select the user's transactions; the pending DELETEs are
\* flushed inside the session's transaction
LoadTransactions ==
    /\ recalc.pc = "load"
    /\ \/ recalc' = [recalc EXCEPT !.transactions = Some(user_txns), !.pc = "commit"]
       \/ recalc' = [recalc EXCEPT !.pc = "raised"]         \* the select raises
    /\ UNCHANGED <<user_txns, claim_rows, requests, basis, profile, score_call>>
    /\ UNCHANGED sessions
    /\ UNCHANGED docVars

\* a failed commit that leaves the deletions in the store
CommitClaims_DeletesKept ==
    /\ recalc.pc = "commit"
    /\ LET S == Get(recalc.transactions)
           new == WithIds(GenerateClaims(S), requests)
       IN  \/ /\ claim_rows' = (claim_rows \ recalc.existing) \cup Range(new)
              /\ basis' = Some(S)
              /\ recalc' = [recalc EXCEPT !.claims = new, !.committed = TRUE,
                                          !.repeat = (basis = Some(S)),
                                          !.pc = IF S = {} THEN "returned" ELSE "refresh"]
           \/ /\ recalc' = [recalc EXCEPT !.claims = new, !.pc = "raised"]
              /\ claim_rows' = claim_rows \ recalc.existing
              /\ UNCHANGED basis
    /\ UNCHANGED <<user_txns, requests, profile, score_call>>
    /\ UNCHANGED sessions
    /\ UNCHANGED docVars
\* lines 36-38 and 41-133: with no transactions commit the deletions and
\* return []; otherwise generate the claims, db.add each, commit.  The
\* commit applies the deletions and the insertions together or, when it
\* raises, neither.
CommitClaims ==
    /\ recalc.pc = "commit"
    /\ LET S == Get(recalc.transactions)
           new == WithIds(GenerateClaims(S), requests)
       IN  \/ /\ claim_rows' = (claim_rows \ recalc.existing) \cup Range(new)
              /\ basis' = Some(S)
              /\ recalc' = [recalc EXCEPT !.claims = new, !.committed = TRUE,
                                          !.repeat = (basis = Some(S)),
                                          !.pc = IF S = {} THEN "returned" ELSE "refresh"]
           \/ /\ recalc' = [recalc EXCEPT !.claims = new, !.pc = "raised"]
              /\ UNCHANGED <<claim_rows, basis>>
    /\ UNCHANGED <<user_txns, requests, profile, score_call>>
    /\ UNCHANGED sessions
    /\ UNCHANGED docVars

\* lines 134-136: db.refresh each new claim, return the claims
RefreshClaims ==
    /\ recalc.pc = "refresh"
    /\ \/ recalc' = [recalc EXCEPT !.pc = "returned"]
       \/ recalc' = [recalc EXCEPT !.pc = "raised"]         \* a refresh raises
    /\ UNCHANGED <<user_txns, claim_rows, requests, basis, profile, score_call>>
    /\ UNCHANGED sessions
    /\ UNCHANGED docVars

\* GET /reputation/profile (router.py:15-30): select the claims, score them
GetProfile ==
    /\ \E claims \in Orderings(claim_rows) :
          profile' = [claims |-> claim_rows, score_data |-> Some(compute_trust_score(claims))]
    /\ profile' # profile
    /\ UNCHANGED <<user_txns, claim_rows, recalc, requests, basis, score_call>>
    /\ UNCHANGED sessions
    /\ UNCHANGED docVars

NextReputation ==
    \/ AddTransactions
    \/ Recalculate
    \/ SelectExisting
    \/ LoadTransactions
    \/ CommitClaims
    \/ RefreshClaims
    \/ GetProfile

ReputationSpec == Init /\ [][NextReputation]_vars

(***************************************************************************)
(* compute_trust_score on its own: the claim list is any list of claims    *)
(* that recalculate_claims generates, with or without a claim of a type     *)
(* the weights do not know, or two claims of one type.                     *)
(***************************************************************************)
(***************************************************************************)
(* Overlapping POST /reputation/recalculate requests of the user.  Each    *)
(* request runs recalculate_claims on the session get_db gives it; a       *)
(* session reads committed rows, and its own deletions and insertions      *)
(* reach the store at its commit.  The transactions are those extracted    *)
(* before the first request.                                               *)
(***************************************************************************)
SeedTransactions == requests = 0 /\ AddTransactions

\* router.py:44-49
BeginCall(k) ==
    /\ sessions[k].pc \in {"idle", "returned", "raised"}
    /\ requests < MaxRecalcs
    /\ requests' = requests + 1
    /\ sessions' = [sessions EXCEPT
                       ![k] = [IdleCall EXCEPT !.pc = "select", !.request = requests + 1]]
    /\ UNCHANGED <<user_txns, claim_rows, recalc, basis, profile, score_call>>
    /\ UNCHANGED docVars

\* lines 24-27: select the user's claims, db.delete each (pending)
CallSelect(k) ==
    /\ sessions[k].pc = "select"
    /\ \/ sessions' = [sessions EXCEPT ![k].existing = claim_rows, ![k].pc = "load"]
       \/ sessions' = [sessions EXCEPT ![k].pc = "raised"]
    /\ UNCHANGED <<user_txns, claim_rows, recalc, requests, basis, profile, score_call>>
    /\ UNCHANGED docVars

\* the rows whose DELETE another session has flushed and not yet committed:
\* a DELETE of the same row waits for that session to end
LockedByOthers(k) ==
    UNION {sessions[j].existing : j \in {i \in Callers \ {k} : sessions[i].pc = "commit"}}

\* lines 30-35: the pending DELETEs are flushed, then the transactions are
\* selected
CallLoad(k) ==
    /\ sessions[k].pc = "load"
    /\ sessions[k].existing \cap LockedByOthers(k) = {}
    /\ \/ sessions' = [sessions EXCEPT ![k].transactions = Some(user_txns),
                                        ![k].pc = "commit"]
       \/ sessions' = [sessions EXCEPT ![k].pc = "raised"]
    /\ UNCHANGED <<user_txns, claim_rows, recalc, requests, basis, profile, score_call>>
    /\ UNCHANGED docVars

\* lines 36-38 and 41-133: the commit applies this session's deletions (of
\* the rows it had selected that are still there) and its insertions
\* together or, when it raises, neither
CallCommit(k) ==
    /\ sessions[k].pc = "commit"
    /\ LET S == Get(sessions[k].transactions)
           new == WithIds(GenerateClaims(S), sessions[k].request)
       IN  \/ /\ claim_rows' = (claim_rows \ sessions[k].existing) \cup Range(new)
              /\ sessions' = [sessions EXCEPT
                                 ![k].committed = TRUE,
                                 ![k].pc = IF S = {} THEN "returned" ELSE "refresh"]
           \/ /\ sessions' = [sessions EXCEPT ![k].pc = "raised"]
              /\ UNCHANGED claim_rows
    /\ UNCHANGED <<user_txns, recalc, requests, basis, profile, score_call>>
    /\ UNCHANGED docVars

\* lines 134-136
CallRefresh(k) ==
    /\ sessions[k].pc = "refresh"
    /\ \/ sessions' = [sessions EXCEPT ![k].pc = "returned"]
       \/ sessions' = [sessions EXCEPT ![k].pc = "raised"]
    /\ UNCHANGED <<user_txns, claim_rows, recalc, requests, basis, profile, score_call>>
    /\ UNCHANGED docVars

NextConcurrent ==
    \/ SeedTransactions
    \/ \E k \in Callers : BeginCall(k)
    \/ \E k \in Callers : CallSelect(k)
    \/ \E k \in Callers : CallLoad(k)
    \/ \E k \in Callers : CallCommit(k)
    \/ \E k \in Callers : CallRefresh(k)

ConcurrentSpec == Init /\ [][NextConcurrent]_vars

UnknownClaim == Claim("employment", [employer |-> "acme"], 50, None, None)

RECURSIVE SubSeqs(_)
SubSeqs(s) ==
    IF s = <<>> THEN {<<>>}
    ELSE LET rest == SubSeqs(Tail(s))
         IN  rest \cup {<<Head(s)>> \o t : t \in rest}

Generated == {GenerateClaims(S) : S \in {T \in SUBSET BatchNames : Cardinality(T) <= MaxDocs}}
SameTypePairs ==
    LET all == UNION {Range(g) : g \in Generated}
    IN  {p \in all \X all : p[1].claim_type = p[2].claim_type /\ p[1] # p[2]}
ClaimLists ==
    UNION {SubSeqs(g \o <<UnknownClaim>>) : g \in Generated} \cup SameTypePairs

InitScore ==
    /\ PipelineInit
    /\ user_txns = {}
    /\ claim_rows = {}
    /\ recalc = IdleRecalc
    /\ requests = 0
    /\ basis = None
    /\ profile = NoProfile
    /\ sessions = [k \in Callers |-> IdleCall]
    /\ score_call \in {[claims |-> cl, result |-> None] : cl \in ClaimLists}

\* score_data = compute_trust_score(claims)
ScoreClaims ==
    /\ IsNone(score_call.result)
    /\ score_call' = [score_call EXCEPT !.result = Some(compute_trust_score(score_call.claims))]
    /\ UNCHANGED <<user_txns, claim_rows, recalc, requests, basis, profile>>
    /\ UNCHANGED sessions
    /\ UNCHANGED docVars

NextScore == ScoreClaims

ScoreSpec == InitScore /\ [][NextScore]_vars

(***************************************************************************)
(* Properties of the pipeline.                                             *)
(***************************************************************************)
Finished == pc \in {"returned", "raised"}
\* the latest run found the document
RunOnDocument == hist # <<>>
Rank(status) ==
    CASE status = "uploaded" -> 0 [] status = "extracting" -> 1
      [] status = "analyzing" -> 2 [] status = "completed" -> 3 [] status = "failed" -> 3

\* C1: whenever process_document has finished on an existing document, the
\* committed status is completed or failed.  Stated for the runs in which the
\* store itself was available (the claim covers those and more).
C1_RunEndsTerminal ==
    (Finished /\ RunOnDocument /\ ~outcome.storeDown)
        => document.status \in {"completed", "failed"}

\* C2 as claimed: in a run started on status uploaded the committed status
\* values are a prefix of uploaded, extracting, analyzing, completed,
\* optionally ended by failed, and failed follows extracting or analyzing only.
StatusOrder == <<"uploaded", "extracting", "analyzing", "completed">>
OrderPrefixes == {SubSeq(StatusOrder, 1, n) : n \in 1..Len(StatusOrder)}
C3_NeverMovesBack ==
    /\ \A i, j \in DOMAIN hist :
          (i < j /\ hist[i] # "failed" /\ hist[j] # "failed") => Rank(hist[i]) <= Rank(hist[j])
    /\ (hist # <<>> /\ hist[1] = "completed") => \A i \in DOMAIN hist : hist[i] = "completed"

\* C4: extracting is committed when the text-extraction client is called and
\* analyzing is committed when classify is called; a status query returns
\* committed values only, and during a run started on uploaded its successive
\* answers follow the order uploaded, extracting, analyzing, completed/failed.
C4_AtCalls ==
    /\ pc \in {"submit", "poll"} => document.status = "extracting"
    /\ calls.submit > 0 => "extracting" \in Range(hist)
    /\ pc \in {"classify", "extract"} => document.status = "analyzing"
    /\ calls.classify > 0 => "analyzing" \in Range(hist)
    /\ ~IsNone(seen) => Get(seen) \in Range(hist)
C4_InOrder ==
    (hist # <<>> /\ hist[1] = "uploaded" /\ runs' = runs /\ ~IsNone(seen) /\ ~IsNone(seen'))
        => Rank(Get(seen)) <= Rank(Get(seen'))
C4_CommittedBeforeNextStep == [](C4_AtCalls) /\ [][C4_InOrder]_vars

C4_Witness == pc = "classify" /\ seen = Some("analyzing") /\ calls.submit = 1

\* C5: when text extraction fails the run stops: no later committed status
\* of the run is analyzing or completed, classify and extract_transactions
\* are not called, the run adds and persists no transaction, and once
\* process_document has returned the status is failed with an error message
\* of at most 500 characters.
C5_TextFailureStops ==
    outcome.textFail # "none" =>
        /\ pc \in {"handler", "returned", "raised"}
        /\ \A i \in 2..Len(hist) : hist[i] \notin {"analyzing", "completed"}
        /\ calls.classify = 0 /\ calls.extract = 0
        /\ rows = <<>> /\ sess.added = <<>> /\ IsNone(transactions)
        /\ pc = "returned" =>
              /\ document.status = "failed"
              /\ ~IsNone(document.error_message)
              /\ Get(document.error_message) <= 500

C5_Witness ==
    /\ pc = "returned" /\ outcome.textFail = "timeout"
    /\ document.status = "failed" /\ document.error_message = Some(500)

\* C6: extract_text_async submits one job and polls at most MAX_POLLS times.
\* The loop never goes on after a poll that reports completed, failed or
\* error; it returns the text of the poll that reports completed, raises
\* RuntimeError after one that reports failed or error, and raises
\* TimeoutError exactly when the MAX_POLLS-th poll reports anything else.
\* Within process_document both failures end in status failed.
Pending(status) == status \notin {"completed", "failed", "error"}
C6_Loop ==
    /\ polls <= MAX_POLLS /\ calls.submit <= 1
    /\ pc = "poll" =>
          /\ polls < MAX_POLLS /\ calls.submit = 1
          /\ lastPoll.status = "none" <=> polls = 0
          /\ Pending(lastPoll.status)
    /\ ~IsNone(raw_text) => (lastPoll.status = "completed" /\ raw_text = Some(lastPoll.text))
    /\ outcome.textFail = "provider" => lastPoll.status \in {"failed", "error"}
    /\ outcome.textFail = "timeout" =>
          (Pending(lastPoll.status) /\ lastPoll.status # "none" /\ IsNone(raw_text))
    /\ (pc = "returned" /\ outcome.textFail \in {"provider", "timeout"})
          => document.status = "failed"
C6_Step ==
    /\ (pc = "poll" /\ pc' = "poll") => polls' \in {polls, polls + 1}
    /\ (pc = "poll" /\ pc' = "poll" /\ lastPoll.status # "none" /\ polls' = polls)
          => lastPoll' = lastPoll
    /\ (outcome.textFail = "none" /\ outcome'.textFail = "timeout")
          => (pc = "poll" /\ polls = MAX_POLLS - 1)
    /\ (pc = "poll" /\ polls = MAX_POLLS - 1 /\ pc' = "poll") => UNCHANGED <<polls, lastPoll>>
C6_PollingBounded == [](C6_Loop) /\ [][C6_Step]_vars /\ (pc = "poll" ~> pc # "poll")

C6_Witness ==
    /\ pc = "returned" /\ outcome.textFail = "timeout" /\ lastPoll.status = "running"
    /\ document.status = "failed" /\ calls.submit = 1

\* C7: when the transaction-list response cannot be parsed, extract_transactions
\* yields the empty list and no exception, the run goes on to the completing
\* commit with no row added, and, unless a commit to the store fails, it ends
\* with status completed, processed_at set and no transaction persisted.
C7_UnparsableIsEmpty ==
    outcome.parseFailed =>
        /\ transactions = Some(<<>>)
        /\ sess.added = <<>> /\ rows = <<>>
        /\ pc \in {"commitCompleted", "returned", "handler", "raised"}
        /\ pc \in {"handler", "raised"} => outcome.commitFailed
        /\ (pc = "returned" /\ ~outcome.commitFailed) =>
              /\ document.status = "completed"
              /\ ~IsNone(document.processed_at)

C7_Witness ==
    /\ outcome.parseFailed /\ pc = "returned" /\ document.status = "completed"
    /\ ~IsNone(document.processed_at) /\ rows = <<>>

(***************************************************************************)
(* What the specification asks of a candidate's fields, stated apart from  *)
(* the conversions of the code.                                            *)
(***************************************************************************)
CATEGORIES == {"rent", "income", "utility", "bank_transfer", "groceries", "other"}
DateParses(v) == v.t = "str" /\ TryFormats(v.s, 1) # None
AmountParses(v) ==
    \/ v.t = "num"
    \/ v.t = "str" /\ \/ (Len(v.s) = 1 /\ v.s[1] \in DigitGroups)
                      \/ (Len(v.s) = 2 /\ v.s[1] = "-" /\ v.s[2] \in DigitGroups)
CategoryKnown(v) == v.t = "str" /\ Len(v.s) = 1 /\ v.s[1] \in CATEGORIES
\* the run has returned with every commit accepted by the store
ReturnedClean == pc = "returned" /\ ~outcome.commitFailed /\ ~IsNone(transactions)
Candidate(i) == Get(transactions)[i]
NumCandidates == Len(Get(transactions))

\* C8: whatever the date field of a candidate holds, a date that does not
\* parse is stored as a null transaction date and the run reaches completed.
\* Stated for candidates whose other fields are well formed.
C8_BadDateIsNull ==
    (/\ ReturnedClean
     /\ \A i \in 1..NumCandidates :
           /\ Candidate(i).kind = "dict"
           /\ AmountParses(Candidate(i).amount)
           /\ CategoryKnown(Candidate(i).category))
    => /\ document.status = "completed"
       /\ Len(rows) = NumCandidates
       /\ \A i \in 1..NumCandidates :
             ~DateParses(Candidate(i).date) => IsNone(rows[i].transaction_date)

\* C9: a candidate whose amount is missing or does not parse as a number is
\* stored with amount 0 and the run reaches completed.  Stated for candidates
\* whose other fields are well formed.
C9_BadAmountIsZero ==
    (/\ ReturnedClean
     /\ \A i \in 1..NumCandidates :
           /\ Candidate(i).kind = "dict"
           /\ DateParses(Candidate(i).date)
           /\ CategoryKnown(Candidate(i).category))
    => /\ document.status = "completed"
       /\ Len(rows) = NumCandidates
       /\ \A i \in 1..NumCandidates :
             ~AmountParses(Candidate(i).amount) => rows[i].amount = 0

\* C10: every persisted transaction has a category of the closed set; a
\* candidate with a missing or unknown category is stored as other.
C10_CategoryClosed ==
    /\ \A i \in DOMAIN rows : rows[i].category \in CATEGORIES
    /\ (ReturnedClean /\ document.status = "completed") =>
          \A i \in 1..NumCandidates :
              ~CategoryKnown(Candidate(i).category) => rows[i].category = "other"

\* C11: the document type stored for a document, and the one pending in the
\* run's session, is always a member of the classifier's closed label set;
\* when the classifier's normalised label lies outside the set (invoice), the
\* type the run stores is other.
C11_TypeInLabelSet ==
    /\ ~IsNone(document.document_type) => Get(document.document_type) \in VALID_TYPES
    /\ ~IsNone(sess.document_type) => Get(sess.document_type) \in VALID_TYPES
    /\ outcome.labelOutside => sess.document_type \in {None, Some("other")}
    /\ (outcome.labelOutside /\ pc = "returned" /\ document.status = "completed") =>
          document.document_type = Some("other")

\* a run whose classifier answered outside the set has completed
C11_Witness ==
    /\ outcome.labelOutside
    /\ pc = "returned"
    /\ document.status = "completed"
    /\ document.document_type = Some("other")

(***************************************************************************)
(* Properties of the reputation engine.                                    *)
(***************************************************************************)
\* a claim row without its identity
DataOf(r) == [claim_type |-> r.claim_type, claim_data |-> r.claim_data,
              confidence |-> r.confidence,
              period_start |-> r.period_start, period_end |-> r.period_end]
TypesOf(R) == {r.claim_type : r \in R}
HasTransaction(S, cat) == \E b \in S : Batch(b).category = cat

\* C12: recalculate is idempotent: a recomputation that loaded the same
\* transactions as the one that produced the stored claims leaves as many
\* claims, of the same types, with the same claim data and confidence per
\* type.
C12_RecalculateIdempotent ==
    (recalc.committed /\ recalc.repeat) =>
        /\ Cardinality(claim_rows) = Cardinality(recalc.before)
        /\ TypesOf(claim_rows) = TypesOf(recalc.before)
        /\ {DataOf(r) : r \in claim_rows} = {DataOf(r) : r \in recalc.before}

\* a second recomputation of the same transactions has committed its claims
C12_Witness ==
    /\ recalc.committed
    /\ recalc.repeat
    /\ recalc.pc = "returned"
    /\ Cardinality(claim_rows) = 4

\* C13: after a recomputation the user has at most four claims, at most
\* one per type: rent_history iff a rent transaction was loaded,
\* income_stability iff an income one, utility_payment iff a utility one,
\* bank_health iff any transaction; no transactions, no claims.
C13_ClaimsPerCategory ==
    recalc.committed =>
        LET S == Get(recalc.transactions)
        IN  /\ Cardinality(claim_rows) \in 0..4
            /\ \A r, q \in claim_rows : r.claim_type = q.claim_type => r = q
            /\ "rent_history" \in TypesOf(claim_rows) <=> HasTransaction(S, "rent")
            /\ "income_stability" \in TypesOf(claim_rows) <=> HasTransaction(S, "income")
            /\ "utility_payment" \in TypesOf(claim_rows) <=> HasTransaction(S, "utility")
            /\ "bank_health" \in TypesOf(claim_rows) <=> S # {}
            /\ TypesOf(claim_rows) \subseteq DOMAIN WEIGHTS
            /\ S = {} => claim_rows = {}

\* a recomputation of transactions with no income has returned its claims
C13_Witness ==
    /\ recalc.pc = "returned"
    /\ recalc.committed
    /\ TypesOf(claim_rows) = {"rent_history", "utility_payment", "bank_health"}

\* C14: after a recomputation the stored claims are exactly the claims it
\* generated: every claim stored before is gone, no identity survives, and
\* the claim data is the one generated from the transactions it loaded.
C14_ClaimsReplaced ==
    recalc.committed =>
        /\ claim_rows = Range(recalc.claims)
        /\ claim_rows \cap recalc.before = {}
        /\ {r.id : r \in claim_rows} \cap {r.id : r \in recalc.before} = {}
        /\ Cardinality(claim_rows) = Len(GenerateClaims(Get(recalc.transactions)))
        /\ {DataOf(r) : r \in claim_rows} = Range(GenerateClaims(Get(recalc.transactions)))

\* a recomputation has replaced the claims an earlier one had stored
C14_Witness ==
    /\ recalc.committed
    /\ recalc.pc = "returned"
    /\ recalc.before # {}
    /\ claim_rows # {}

\* C15: a profile read made since a recalculate request began saw either
\* the complete claim set stored before the request or, once the commit has
\* returned, the complete new set; it never saw an empty or partial set in
\* between.
C15_ReadersSeeOldOrNew ==
    (recalc.pc # "idle" /\ ~IsNone(profile.score_data)) =>
        \/ profile.claims = recalc.before
        \/ recalc.committed /\ profile.claims = Range(recalc.claims)

\* a read made while the deletions are pending saw the old claims
C15_Witness ==
    /\ recalc.pc = "commit"
    /\ recalc.existing # {}
    /\ ~IsNone(profile.score_data)
    /\ profile.claims = recalc.before
    /\ Get(profile.score_data).score > 0

\* C16: a recalculate call stores no partial set.  Until its commit returns,
\* and for good when it fails while deleting, loading or committing, the
\* stored claims are the ones stored before the call; otherwise, once the
\* commit has returned, the stored claims are the full new set; a call that
\* returns has committed.
C16_AllOrNothing ==
    recalc.pc # "idle" =>
        /\ ~recalc.committed => claim_rows = recalc.before
        /\ recalc.committed =>
              /\ claim_rows = Range(recalc.claims)
              /\ {DataOf(r) : r \in claim_rows}
                    = Range(GenerateClaims(Get(recalc.transactions)))
              /\ recalc.pc \in {"refresh", "returned", "raised"}
        /\ recalc.pc = "returned" => recalc.committed

\* a commit that had deletions and insertions to apply has failed
C16_Witness ==
    /\ recalc.pc = "raised"
    /\ ~recalc.committed
    /\ recalc.existing # {}
    /\ recalc.claims # <<>>
    /\ claim_rows = recalc.before

(***************************************************************************)
(* Properties of compute_trust_score.  Scores are in tenths.               *)
(***************************************************************************)
Scored == ~IsNone(score_call.result)
Result == Get(score_call.result)
ListTypes == {score_call.claims[i].claim_type : i \in DOMAIN score_call.claims}
OnePerType == Cardinality(ListTypes) = Len(score_call.claims)

\* C18: an empty claim list gives score 0 and level No Data; a non-empty
\* list gives Excellent exactly when the score is at least 80, Good from 60
\* to below 80, Fair from 40 to below 60, Building from 20 to below 40, New
\* below 20.
C18_LevelLadder ==
    Scored =>
        /\ score_call.claims = <<>> => Result.score = 0 /\ Result.level = "No Data"
        /\ score_call.claims # <<>> =>
              /\ Result.level \in {"Excellent", "Good", "Fair", "Building", "New"}
              /\ Result.level = "Excellent" <=> Result.score >= 800
              /\ Result.level = "Good" <=> (600 <= Result.score /\ Result.score < 800)
              /\ Result.level = "Fair" <=> (400 <= Result.score /\ Result.score < 600)
              /\ Result.level = "Building" <=> (200 <= Result.score /\ Result.score < 400)
              /\ Result.level = "New" <=> Result.score < 200

\* a list scored exactly 80 is Excellent
C18_Witness ==
    /\ Scored
    /\ Result.score = 800
    /\ Result.level = "Excellent"

\* the weight the claims state for a claim type, in hundredths
StatedWeight(ct) ==
    CASE ct = "rent_history" -> 30
      [] ct = "income_stability" -> 30
      [] ct = "utility_payment" -> 20
      [] ct = "bank_health" -> 20
      [] OTHER -> 10

\* every raw sub-score n/d has a denominator that divides SCALE, so the sum
\* of raw x weight is the integer ExactTotal over SCALE * 100
SCALE == 60000
ExactTotal ==
    Sum([i \in DOMAIN score_call.claims |->
            RawScore(score_call.claims[i]).n
              * (SCALE \div RawScore(score_call.claims[i]).d)
              * StatedWeight(score_call.claims[i].claim_type)],
        DOMAIN score_call.claims)
ExactClamped == Min(100 * SCALE * 100, Max(0, ExactTotal))

\* C19 as stated: for a list with one claim per type the score is the sum
\* of raw sub-score times weight, clamped to [0,100] and then rounded to
\* one decimal (to a nearest tenth, whichever way a tie goes); the score
\* lies in [0,100].
C19_ScoreIsRoundedSum ==
    (Scored /\ score_call.claims # <<>> /\ OnePerType) =>
        /\ 2 * Abs(Result.score * (SCALE * 10) - ExactClamped) <= SCALE * 10
        /\ Result.score \in 0..1000

\* C19: for a list with one claim per type the score is the sum, over the
\* claims, of raw sub-score times weight rounded to one decimal each, the
\* sum then clamped to [0,100]; the score of any list lies in [0,100].
C19_ScoreIsSumOfRounded ==
    Scored =>
        /\ (score_call.claims # <<>> /\ OnePerType) =>
              Result.score =
                Min(1000, Max(0,
                    Sum([i \in DOMAIN score_call.claims |->
                            RoundHalfEven(
                                10 * RawScore(score_call.claims[i]).n
                                   * StatedWeight(score_call.claims[i].claim_type),
                                RawScore(score_call.claims[i]).d * 100)],
                        DOMAIN score_call.claims)))
        /\ Result.score \in 0..1000

\* one late rent payment and one utility payment on time: the contributions
\* 0.75, 20 and 6.86 are summed as 0.8 + 20.0 + 6.9
C19_Witness ==
    /\ Scored
    /\ OnePerType
    /\ ListTypes = {"rent_history", "utility_payment", "bank_health"}
    /\ Result.score = 277
    /\ ExactTotal = 2761 * (SCALE \div 100) * 100

\* C20: a claim list of a single claim type scores at most 100 times the
\* weight of that type, so at most 30, and never 100.
C20_SingleTypeBounded ==
    (Scored /\ Cardinality(ListTypes) = 1) =>
        /\ \A ct \in ListTypes : Result.score <= 10 * StatedWeight(ct)
        /\ Result.score <= 300
        /\ Result.score < 1000

\* twelve rent payments on time and nothing else: 30
C20_Witness ==
    /\ Scored
    /\ ListTypes = {"rent_history"}
    /\ Result.score = 300

(***************************************************************************)
(* The reference sub-scores, in tenths, of the claim whose entry the       *)
(* breakdown keeps for a type (the last one of that type in the list).     *)
(* rate is in hundredths and net_flow in cents, as the claim data hold     *)
(* them.                                                                   *)
(***************************************************************************)
KeptClaim(ct) ==
    LET cl == score_call.claims
    IN  cl[CHOOSE i \in DOMAIN cl :
               /\ cl[i].claim_type = ct
               /\ \A j \in DOMAIN cl : j > i => cl[j].claim_type # ct]
\* 100 * min(1, count / 12), in tenths
CountShare(count) == IF count >= 12 THEN 1000 ELSE RoundHalfEven(1000 * count, 12)
ReferenceRaw(c) ==
    CASE c.claim_type = "rent_history" ->
           \* 100 * (0.7 * on_time_rate + 0.3 * min(1, total_payments / 12))
           7 * c.claim_data.on_time_rate
             + (IF c.claim_data.total_payments >= 12 THEN 300
                ELSE 25 * c.claim_data.total_payments)
      [] c.claim_type = "income_stability" -> CountShare(c.claim_data.total_deposits)
      [] c.claim_type = "utility_payment" -> 10 * c.claim_data.on_time_rate
      [] c.claim_type = "bank_health" ->
           \* clamp(50 + net_flow / 100, 0, 100); a cent of net flow is
           \* a thousandth of a tenth of a point
           LET v == 500000 + c.claim_data.net_flow
           IN  IF v <= 0 THEN 0
               ELSE IF v >= 1000000 THEN 1000
               ELSE RoundHalfEven(v, 1000)
      [] OTHER -> 500

\* C21: for each claim the raw sub-score is the reference formula of its
\* type (rent, income, utility, bank health, 50 for an unrecognized type)
\* and lies between 0 and 100; twelve or more deposits give 100 and a net
\* flow of 0 gives 50.
C21_RawMatchesReference ==
    Scored =>
        \A ct \in ListTypes :
            LET c == KeptClaim(ct)
                raw == Result.breakdown[ct].raw_score
            IN  /\ raw = ReferenceRaw(c)
                /\ raw >= 0 /\ raw <= 1000
                /\ (ct = "income_stability" /\ c.claim_data.total_deposits >= 12)
                       => raw = 1000
                /\ (ct = "bank_health" /\ c.claim_data.net_flow = 0) => raw = 500
                /\ ct \notin DOMAIN WEIGHTS => raw = 500

\* thirteen deposits score 100 and an unrecognized claim type scores 50
C21_Witness ==
    /\ Scored
    /\ "income_stability" \in ListTypes
    /\ KeptClaim("income_stability").claim_data.total_deposits = 13
    /\ Result.breakdown["income_stability"].raw_score = 1000
    /\ "employment" \in ListTypes
    /\ Result.breakdown["employment"].raw_score = 500

(***************************************************************************)
(* The transaction rows behind the committed claims: row k of batch b.     *)
(***************************************************************************)
RowsOf(S) == UNION {{<<b, k>> : k \in 1..Batch(b).n} : b \in S}
InCategory(S, cat) == {r \in RowsOf(S) : Batch(r[1]).category = cat}
FlaggedOnTime(R) == {r \in R : Batch(r[1]).is_on_time = Some(TRUE)}
PaymentType(cat) == IF cat = "rent" THEN "rent_history" ELSE "utility_payment"
StoredOfType(ct) == {r \in claim_rows : r.claim_type = ct}

CentsOf(r) == 100 * Batch(r[1]).amount
SumCents(R) == Sum([r \in R |-> CentsOf(r)], R)

\* C23: the bank_health claim recalculate stores is made over all of the
\* user's transactions of every category: total_inflow is the sum of the
\* positive amounts, total_outflow the sum of the absolute values of the
\* negative amounts, net_flow = total_inflow - total_outflow = the signed
\* sum of all amounts, transaction_count the number of transactions; a zero
\* amount adds to neither flow.
C23_BankHealthFlows ==
    (~IsNone(basis) /\ Get(basis) # {}) =>
        LET all == RowsOf(Get(basis))
            positive == {r \in all : CentsOf(r) > 0}
            negative == {r \in all : CentsOf(r) < 0}
        IN  /\ StoredOfType("bank_health") # {}
            /\ \A r \in StoredOfType("bank_health") :
                  /\ r.claim_data.total_inflow = SumCents(positive)
                  /\ r.claim_data.total_outflow = 0 - SumCents(negative)
                  /\ r.claim_data.net_flow
                        = r.claim_data.total_inflow - r.claim_data.total_outflow
                  /\ r.claim_data.net_flow = SumCents(all)
                  /\ r.claim_data.transaction_count = Cardinality(all)
                  /\ r.claim_data.transaction_count
                        >= Cardinality(positive) + Cardinality(negative)

\* a deposit of 4200, a purchase of 80 in no claim category and a
\* transaction of amount 0: three transactions, inflow 4200, outflow 80
C23_Witness ==
    /\ basis = Some({"pay1", "shop", "zero"})
    /\ \E r \in StoredOfType("bank_health") :
          /\ r.claim_data.total_inflow = 420000
          /\ r.claim_data.total_outflow = 8000
          /\ r.claim_data.net_flow = 412000
          /\ r.claim_data.transaction_count = 3

(***************************************************************************)
(* The transactions that contribute to a claim of a type, and the period   *)
(* their dates span.                                                       *)
(***************************************************************************)
Contributing(S, ct) ==
    CASE ct = "rent_history"     -> {b \in S : Batch(b).category = "rent"}
      [] ct = "income_stability" -> {b \in S : Batch(b).category = "income"}
      [] ct = "utility_payment"  -> {b \in S : Batch(b).category = "utility"}
      [] ct = "bank_health"      -> S
\* r's period is the span of the dated transactions of G, null when none
SpansDates(r, G) ==
    LET dated == {b \in G : Batch(b).first # None}
    IN  IF dated = {} THEN r.period_start = None /\ r.period_end = None
        ELSE /\ \E b \in dated : r.period_start = Batch(b).first
             /\ \A b \in dated : Get(r.period_start) <= Get(Batch(b).first)
             /\ \E b \in dated : r.period_end = Batch(b).last
             /\ \A b \in dated : Get(r.period_end) >= Get(Batch(b).last)

\* C24 as stated: for every claim recalculate stores, bank_health included,
\* period start and end are the minimum and maximum date of the dated
\* transactions that contribute to the claim, and both are null exactly when
\* no dated transaction contributes.
C24_PeriodOfEveryClaim ==
    ~IsNone(basis) =>
        \A r \in claim_rows : SpansDates(r, Contributing(Get(basis), r.claim_type))

\* C24 amended: the rent_history, income_stability and utility_payment
\* claims have the period their dated transactions span, null exactly when
\* none of them is dated; the bank_health claim always has a null period.
C24_PeriodOfCategoryClaims ==
    ~IsNone(basis) =>
        \A r \in claim_rows :
            IF r.claim_type = "bank_health"
            THEN r.period_start = None /\ r.period_end = None
            ELSE SpansDates(r, Contributing(Get(basis), r.claim_type))

\* rent payments dated and undated, utility payments all undated: the rent
\* claim spans the dated payments, the utility claim and the bank health
\* claim have no period
C24_Witness ==
    /\ basis = Some({"rent12", "rentLate", "waterLate"})
    /\ \E r \in StoredOfType("rent_history") :
          r.period_start = Some(32) /\ r.period_end = Some(366)
    /\ \E r \in StoredOfType("utility_payment") :
          r.period_start = None /\ r.period_end = None
    /\ \E r \in StoredOfType("bank_health") :
          r.period_start = None /\ r.period_end = None

\* a step that creates the document row: the upload request
Uploads == document.status = "absent" /\ document'.status # "absent"

\* C25: an upload creates exactly one Document, in status uploaded, and
\* schedules exactly one run for it, which has executed nothing when the
\* request returns; the document is created once and never removed, so a
\* second run on it can only come from a call outside the upload path, and
\* with uploads alone the document has a single run.
C25_UploadSchedulesOneRun ==
    [][/\ Uploads =>
            /\ document' = NewDocument
            /\ runs' = runs + 1
            /\ pc' = "scheduled"
            /\ calls' = NoCalls /\ polls' = 0 /\ rows' = <<>>
       /\ document.status # "absent" => document'.status # "absent"
       /\ (runs' # runs /\ ~Uploads) => UNCHANGED document]_vars

\* the upload has returned: the row is in status uploaded and its one run is
\* scheduled and has not started
C25_Witness ==
    /\ document = NewDocument
    /\ pc = "scheduled"
    /\ runs = 1
    /\ hist = <<"uploaded">>

\* the committed statuses of a run started on a failed document
RerunOrder == <<"failed", "extracting", "analyzing", "completed">>
RerunPrefixes == {SubSeq(RerunOrder, 1, n) : n \in 1..Len(RerunOrder)}

\* C26: run invoked on a document in status failed is accepted and executes
\* the pipeline from its first step: the committed status goes failed,
\* extracting, analyzing, completed when every step succeeds, or back to
\* failed on an error (never without one); text extraction, classification
\* and transaction extraction are each called again, in that order, and no
\* run calls a provider a second time.
C26_RerunFromFailed ==
    /\ calls.submit <= 1 /\ calls.classify <= 1 /\ calls.extract <= 1
    /\ calls.classify <= calls.submit /\ calls.extract <= calls.classify
    /\ (hist # <<>> /\ hist[1] = "failed") =>
          /\ \/ hist \in RerunPrefixes
             \/ \E p \in RerunPrefixes :
                   Len(p) > 1 /\ p[Len(p)] # "completed" /\ hist = Append(p, "failed")
          /\ pc = "returned" =>
                \/ /\ document.status = "completed"
                   /\ hist = RerunOrder
                   /\ calls = [submit |-> 1, classify |-> 1, extract |-> 1]
                \/ /\ document.status = "failed"
                   /\ exc # NoExc

\* the second run, on the document the first run left failed, has completed
C26_Witness ==
    /\ runs = 2
    /\ pc = "returned"
    /\ hist = RerunOrder
    /\ document.status = "completed"
    /\ calls = [submit |-> 1, classify |-> 1, extract |-> 1]

\* C27: the transactions of a run are persisted all or not at all: a
\* document whose run ended in failed has no transaction persisted by that
\* run, also when the failure came while the candidates were being converted
\* after some had been added, and the rows of a run are visible only
\* together with status completed.
C27_RowsOnlyWithCompleted ==
    /\ (pc = "returned" /\ exc # NoExc /\ document.status = "failed") => rows = <<>>
    /\ rows # <<>> => document.status = "completed"

\* C30: in every reachable state, after any sequence of runs on the
\* document (a successful run after a failed one included), a document in
\* status completed has no error message and has its processed timestamp
\* set, and a document with an error message is in status failed.
C30_ErrorOnlyWhenFailed ==
    /\ document.status = "completed" =>
          /\ document.error_message = None
          /\ document.processed_at # None
    /\ document.error_message # None => document.status = "failed"

\* the claim list in every order
Reorderings(s) ==
    {[i \in DOMAIN s |-> s[f[i]]] :
        f \in {g \in [DOMAIN s -> DOMAIN s] : \A i, j \in DOMAIN s : g[i] = g[j] => i = j}}

\* C29: compute_trust_score does not depend on the order of its claim
\* list: every permutation of a list, also of one that holds several claims
\* of one type with different claim data, gives the same score, level and
\* breakdown.
C29_OrderIndependent ==
    Scored => \A p \in Reorderings(score_call.claims) : compute_trust_score(p) = Result

\* no overlapping recalculate call is in progress, and one has committed
CallsFinished ==
    /\ \A k \in Callers : sessions[k].pc \in {"idle", "returned", "raised"}
    /\ \E k \in Callers : sessions[k].committed

\* C28: once every one of two or more overlapping recalculate calls of a
\* user has finished, the stored claims hold at most one claim per claim
\* type, at most 4 in all, and are the claims one recalculate alone
\* generates from the user's transactions.
C28_ConcurrentRecalculate ==
    CallsFinished =>
        /\ \A r1, r2 \in claim_rows : r1.claim_type = r2.claim_type => r1 = r2
        /\ Cardinality(claim_rows) <= 4
        /\ {DataOf(r) : r \in claim_rows} = Range(GenerateClaims(user_txns))

====
